---- MODULE Spec2Model ----
(***************************************************************************)
(* Model of FTM_Rev07.py: a finite tape machine whose steps are sonified   *)
(* as stereo samples.  The model covers load_program, reset_machine,       *)
(* set_delay and the frame loop of run_ftmp_forever (input events, the     *)
(* step scheduler, the machine step with its sample synthesis, the chunk   *)
(* buffer and the playback driver).  Drawing, the caption and the          *)
(* brightness/fade keys do not touch any of that state and are left out.   *)
(***************************************************************************)
EXTENDS Integers, Sequences, FiniteSets, TLC

\* ---------------------------------------------------------------- bounds
MaxN      == 4   \* tape lengths 1..MaxN
MaxFrames == 5   \* frames of the main loop that a run executes
MaxDelay  == 3   \* key presses that would raise delay_samples above this are not drawn
MaxRows   == 3   \* rows of a rule file in the loader specification

\* ------------------------------------------------------ program constants
HIGH          == 12000   \* bit_to_i16(True)
CHUNK_MS      == 60
MIN_CHUNK     == 256     \* floor of CHUNK_FRAMES
SAMPLE_BYTES  == 4       \* struct.pack("<hh", L, R)
PRIME_CHUNKS  == 3
COARSE        == 64      \* coarse delay key step
INITIAL_PC    == 1       \* MachineState.pc default and reset_machine

Max(a, b) == IF a >= b THEN a ELSE b
Min(a, b) == IF a <= b THEN a ELSE b

bit_to_i16(bit) == IF bit THEN HIGH ELSE 0

\* ------------------------------------------------------------ load_program
\* A row of the csv file after int(): [pc, read, write, move, next_pc], where
\* move is still the raw text of the column.
MoveTokens == {"L", "R", "S", "l", " r", "X"}

\* row["move"].strip().upper() on the tokens above.
StripUpper(tok) ==
    CASE tok = "l"  -> "L"
      [] tok = " r" -> "R"
      [] OTHER      -> tok

\* move is None (and the row is refused) unless mv is one of L, R, S.
ValidMove(mv) == mv \in {"L", "R", "S"}

\* -1 if mv == "L" else (1 if mv == "R" else (0 if mv == "S" else None))
ParseMove(mv) == IF mv = "L" THEN -1 ELSE IF mv = "R" THEN 1 ELSE 0

Rule(w, m, n) == [write |-> w, move |-> m, next_pc |-> n]

EmptyProgram == [k \in {} |-> Rule(0, 0, 0)]

\* program[(pc, read)] = Rule(...)
ProgramPut(program, key, rule) ==
    [k \in (DOMAIN program) \cup {key} |-> IF k = key THEN rule ELSE program[k]]

WriteAllowed_OnlyBits(write) == write \in {0, 1}
\* if write not in (0, 1, 2): raise
WriteAllowed(write) == write \in {0, 1, 2}

MissingRule_OnlyZero(program, pcs) ==
    \E p \in pcs : <<p, 0>> \notin DOMAIN program
\* for pc in pcs: for read in (0, 1): if (pc, read) not in program: raise
MissingRule(program, pcs) ==
    \E p \in pcs : \E read \in {0, 1} : <<p, read>> \notin DOMAIN program

LoadError(why) == [ok |-> FALSE, err |-> why, program |-> EmptyProgram]

\* The loop over the rows, then the totality check.
RECURSIVE LoadRows(_, _, _, _)
LoadRows(rows, idx, program, pcs) ==
    IF idx > Len(rows)
    THEN IF MissingRule(program, pcs)
         THEN LoadError("missing rule")
         ELSE [ok |-> TRUE, err |-> "", program |-> program]
    ELSE LET row  == rows[idx]
             mv   == StripUpper(row.move)
             move == ParseMove(mv)
         IN  IF ~ValidMove(mv) THEN LoadError("bad move")
             ELSE IF ~WriteAllowed(row.write) THEN LoadError("bad write")
             ELSE LoadRows(rows, idx + 1,
                           ProgramPut(program, <<row.pc, row.read>>,
                                      Rule(row.write, move, row.next_pc)),
                           pcs \cup {row.pc})

load_program(rows) == LoadRows(rows, 1, EmptyProgram, {})

Row(p, r, w, m, n) == [pc |-> p, read |-> r, write |-> w, move |-> m, next_pc |-> n]

\* ------------------------------------------------------------ rule files
\* Rule files of the loader specification: every sequence of at most MaxRows
\* rows over a small alphabet of column values.
LoadRowSet ==
    { Row(p, r, w, m, n) : p \in {1, 2}, r \in {0, 1}, w \in {1, 3},
                           m \in {"l", "X"}, n \in {1} }

RECURSIVE SeqsUpTo(_, _)
SeqsUpTo(S, n) ==
    IF n = 0 THEN {<<>>}
    ELSE LET shorter == SeqsUpTo(S, n - 1)
         IN  shorter \cup { Append(q, x) : q \in { t \in shorter : Len(t) = n - 1 }, x \in S }

LoadSources == SeqsUpTo(LoadRowSet, MaxRows)

\* Rule files of the machine specification.  One-state files pair a rule for
\* read=0 with a rule for read=1; next_pc=2 and write=2 are values the loader
\* lets through.
Rules0 == { Rule(1, "R", 1), Rule(1, "l", 1), Rule(2, " r", 1) }
Rules1 == { Rule(0, "R", 1), Rule(1, "S", 2) }

OneStateSources ==
    { << Row(1, 0, a.write, a.move, a.next_pc), Row(1, 1, b.write, b.move, b.next_pc) >> :
        a \in Rules0, b \in Rules1 }

\* The two-state oscillator of the end-to-end example.
Oscillator ==
    << Row(1, 0, 1, "R", 2), Row(1, 1, 0, "R", 2),
       Row(2, 0, 1, "R", 1), Row(2, 1, 0, "R", 1) >>

\* A file that declares only pc=2, a file with a rule missing, a bad move.
OnlyStateTwo == << Row(2, 0, 1, "R", 2), Row(2, 1, 0, "L", 2) >>
HalfState    == << Row(1, 0, 1, "R", 1), Row(1, 1, 0, "R", 3), Row(3, 0, 1, "L", 1) >>
BadMove      == << Row(1, 0, 1, "X", 1), Row(1, 1, 0, "R", 1) >>

MachineSources == OneStateSources \cup {Oscillator, OnlyStateTwo, HalfState, BadMove}

\* ------------------------------------------------------------------ state
VARIABLES
    rows,           \* the rows of the rule file at program_path
    N,              \* tape length
    fps,            \* cfg.fps_target
    audio_hz,
    program,        \* the table load_program returned
    phase,          \* where run_ftmp_forever is: start, load_error, input, steps, tick, key_error, done
    tape, i, pc, cycle,          \* MachineState
    delay_samples, delay_line,   \* the delay knob and its deque: [items, maxlen]
    step_acc,       \* scheduler accumulator
    steps_left,     \* iterations left of "for _ in range(max(1, steps))"
    chunk,          \* len(chunk), in bytes
    started_audio, prime_count,
    running,
    frames,         \* frames completed (history)
    sealed,         \* packets sealed so far (history)
    chan,           \* the device call made for the last sealed packet (history)
    ev,             \* the last machine step's event and samples; n = 0 before any (history)
    whist,          \* w_now of the last delay_samples + 1 steps since delay_samples changed (history)
    frame_steps,    \* steps executed in the current frame (history)
    window,         \* steps executed in each of the last fps completed frames (history)
    req,            \* <<new_delay>> of the last set_delay call of this input phase, else <<>> (history)
    total_steps,    \* machine steps executed since the program started (history)
    snd_len,        \* len(bytes(chunk)) of the last sealed packet (history)
    handed          \* device calls (play or queue) made so far (history)

machine == <<tape, i, pc, cycle>>
delay   == <<delay_samples, delay_line>>
driver  == <<chunk, started_audio, prime_count, sealed, chan, total_steps, snd_len, handed>>
config  == <<rows, N, fps, audio_hz>>
vars == <<rows, N, fps, audio_hz, program, phase, tape, i, pc, cycle,
          delay_samples, delay_line, step_acc, steps_left, chunk,
          started_audio, prime_count, running, frames, sealed, chan, ev,
          whist, frame_steps, window, req, total_steps, snd_len, handed>>

\* ---------------------------------------------------------- derived values
MIN_DELAY == 0
MAX_DELAY == audio_hz
\* max(256, int(audio_hz * CHUNK_MS / 1000))
CHUNK_FRAMES == Max(MIN_CHUNK, (audio_hz * CHUNK_MS) \div 1000)
CHUNK_BYTES  == CHUNK_FRAMES * SAMPLE_BYTES
base_steps == audio_hz \div fps
rem_steps  == audio_hz % fps

\* ----------------------------------------------------------- reset_machine
SeedIndex_Half(n) == n \div 2
\* the seeded cell, N // 4
SeedIndex(n) == n \div 4

reset_keep_cycle(st, n) ==
    [tape  |-> [x \in 0..(n - 1) |-> IF x = SeedIndex(n) THEN 1 ELSE 0],
     i |-> 0, pc |-> INITIAL_PC, cycle |-> st.cycle]
\* tape[:] = [0]*N; i = 0; pc = 1; cycle = 0; tape[N // 4] = 1
reset_machine(st, n) ==
    [tape  |-> [x \in 0..(n - 1) |-> IF x = SeedIndex(n) THEN 1 ELSE 0],
     i |-> 0, pc |-> INITIAL_PC, cycle |-> 0]

\* --------------------------------------------------------------- the deque
\* deque([0] * n, maxlen=n)
ZeroDeque(n) == [items |-> [x \in 1..n |-> 0], maxlen |-> n]

\* deque.append: a full bounded deque drops its leftmost item to make room.
DequeAppend(d, x) ==
    IF Len(d.items) >= d.maxlen
    THEN [d EXCEPT !.items = Append(Tail(@), x)]
    ELSE [d EXCEPT !.items = Append(@, x)]

\* ---------------------------------------------------------------- set_delay
ClampDelay_NoFloor(new_delay) == Min(MAX_DELAY, new_delay)
\* max(MIN_DELAY, min(MAX_DELAY, int(new_delay)))
ClampDelay(new_delay) == Max(MIN_DELAY, Min(MAX_DELAY, new_delay))

set_delay_rezero(new_delay) ==
    LET nd == ClampDelay(new_delay)
    IN  [delay_samples |-> nd,
         delay_line    |-> IF nd <= 0 THEN ZeroDeque(1) ELSE ZeroDeque(nd)]
\* The (delay_samples, delay_line) that set_delay(new_delay) leaves.
set_delay(new_delay) ==
    LET nd == ClampDelay(new_delay)
    IN  IF nd = delay_samples
        THEN [delay_samples |-> delay_samples, delay_line |-> delay_line]
        ELSE [delay_samples |-> nd,
              delay_line    |-> IF nd <= 0 THEN ZeroDeque(1) ELSE ZeroDeque(nd)]

\* --------------------------------------------------------------- scheduler
Carry_Strict(acc) == acc > fps
\* if step_acc >= cfg.fps_target
Carry(acc) == acc >= fps

LoopCount_NoFloor(steps) == steps
\* range(max(1, steps))
LoopCount(steps) == Max(1, steps)

\* steps of this frame and the accumulator it leaves
Schedule(acc) ==
    LET a == acc + rem_steps
    IN  IF Carry(a) THEN [steps |-> base_steps + 1, acc |-> a - fps]
                    ELSE [steps |-> base_steps,     acc |-> a]

\* ------------------------------------------------------------ machine step
MoveHead_NoWrap(tc, move) == Max(0, Min(N - 1, tc + move))
\* (tc + rule.move) % N
MoveHead(tc, move) == (tc + move) % N

WriteCell_Next(t, tc, sym) == [t EXCEPT ![(tc + 1) % N] = sym]
\* state.tape[tc] = write_sym
WriteCell(t, tc, sym) == [t EXCEPT ![tc] = sym]

DelayStep_MuteOnUnderrun(w_now) ==
    IF delay_samples <= 0
    THEN [R |-> w_now, line |-> delay_line]
    ELSE LET d == DequeAppend(delay_line, w_now)
         IN  [R |-> IF chan.asked /\ ~chan.busy THEN 0 ELSE Head(d.items),
              line |-> [d EXCEPT !.items = Tail(@)]]
\* Right sample and the delay line after one step
DelayStep(w_now) ==
    IF delay_samples <= 0
    THEN [R |-> w_now, line |-> delay_line]
    ELSE LET d == DequeAppend(delay_line, w_now)
         IN  [R |-> Head(d.items), line |-> [d EXCEPT !.items = Tail(@)]]

\* ---------------------------------------------------------- playback driver
Dispatch_Swapped(started, primed, busy) ==
    IF ~started
    THEN [op |-> IF primed = 0 THEN "play" ELSE "queue", asked |-> FALSE, busy |-> FALSE,
          dev |-> busy]
    ELSE [op |-> IF busy THEN "play" ELSE "queue", asked |-> TRUE, busy |-> busy,
          dev |-> busy]
Dispatch_DropWhenBusy(started, primed, busy) ==
    IF ~started
    THEN [op |-> IF primed = 0 THEN "play" ELSE "queue", asked |-> FALSE, busy |-> FALSE,
          dev |-> busy]
    ELSE [op |-> IF busy THEN "none" ELSE "play", asked |-> TRUE, busy |-> busy,
          dev |-> busy]
Dispatch_PlayWhilePriming(started, primed, busy) ==
    IF ~started
    THEN [op |-> "play", asked |-> FALSE, busy |-> FALSE, dev |-> busy]
    ELSE [op |-> IF busy THEN "queue" ELSE "play", asked |-> TRUE, busy |-> busy,
          dev |-> busy]
\* The device call for a sealed packet, the device being busy or not at that
\* moment: which call is made (op), whether get_busy() was consulted (asked)
\* and what it answered (busy); dev is the device's state, seen or not.
Dispatch(started, primed, busy) ==
    IF ~started
    THEN [op |-> IF primed = 0 THEN "play" ELSE "queue", asked |-> FALSE, busy |-> FALSE,
          dev |-> busy]
    ELSE [op |-> IF busy THEN "queue" ELSE "play", asked |-> TRUE, busy |-> busy,
          dev |-> busy]

\* device calls in a dispatch
Calls(d) == IF d.op \in {"play", "queue"} THEN 1 ELSE 0

\* What the device can be doing when a packet is sealed: it renders only what
\* play and queue gave it, and may have finished that at any time.
DeviceStates == IF handed = 0 THEN {FALSE} ELSE BOOLEAN

SealDue_Late(len) == len > CHUNK_BYTES
\* if len(chunk) >= CHUNK_BYTES
SealDue(len) == len >= CHUNK_BYTES

Primed_Late(count) == count > PRIME_CHUNKS
\* if prime_count >= PRIME_CHUNKS: started_audio = True
Primed(count) == count >= PRIME_CHUNKS

\* no step yet
NoEvent == [n |-> 0, read |-> 0, write |-> 0, L |-> 0, R |-> 0, w_now |-> 0,
            row |-> 0, col |-> 0]

\* ------------------------------------------------------------------- Init
\* The state run_ftmp_forever sets up (lines 107-168) for a given command line
\* and rule file; phase "start" is the call of load_program.
Setup(ns, rates, sources) ==
    /\ N \in ns
    /\ \E r \in rates : audio_hz = r[1] /\ fps = r[2]
    /\ rows \in sources
    /\ program = EmptyProgram
    /\ phase = "start"
    /\ LET st == reset_machine([tape |-> <<>>, i |-> 0, pc |-> INITIAL_PC, cycle |-> 0], N)
       IN  tape = st.tape /\ i = st.i /\ pc = st.pc /\ cycle = st.cycle
    /\ delay_samples = 0
    /\ delay_line = ZeroDeque(Max(1, 0))
    /\ step_acc = 0
    /\ steps_left = 0
    /\ chunk = 0
    /\ started_audio = FALSE
    /\ prime_count = 0
    /\ running = TRUE
    /\ frames = 0
    /\ sealed = 0
    /\ chan = [op |-> "none", asked |-> FALSE, busy |-> FALSE, dev |-> FALSE]
    /\ ev = NoEvent
    /\ whist = <<>>
    /\ frame_steps = 0
    /\ window = <<>>
    /\ req = <<>>
    /\ total_steps = 0
    /\ snd_len = 0
    /\ handed = 0

MaxHz  == 3   \* audio rates 1..MaxHz
MaxFps == 2   \* frame rates 1..MaxFps

Init == Setup(1..MaxN, (1..MaxHz) \X (1..MaxFps), MachineSources)

\* ---------------------------------------------------------------- actions
\* program = load_program(program_path)
Load ==
    /\ phase = "start"
    /\ LET res == load_program(rows)
       IN  /\ program' = res.program
           /\ phase' = IF res.ok THEN "input" ELSE "load_error"
    /\ UNCHANGED <<config, machine, delay, driver, step_acc, steps_left, running,
                   frames, ev, whist, frame_steps, window, req>>

Quit_Immediate ==
    /\ phase = "input"
    /\ running' = FALSE
    /\ phase' = "done"
    /\ UNCHANGED <<config, program, machine, delay, driver, step_acc,
                   steps_left, frames, ev, whist, frame_steps, window, req>>
\* QUIT, Escape or q
Quit ==
    /\ phase = "input"
    /\ running' = FALSE
    /\ UNCHANGED <<config, program, phase, machine, delay, driver, step_acc,
                   steps_left, frames, ev, whist, frame_steps, window, req>>

KeyReset_ClearsAudio ==
    /\ phase = "input"
    /\ LET st == reset_machine([tape |-> tape, i |-> i, pc |-> pc, cycle |-> cycle], N)
       IN  tape' = st.tape /\ i' = st.i /\ pc' = st.pc /\ cycle' = st.cycle
    /\ chunk' = 0
    /\ delay_line' = ZeroDeque(Max(1, delay_samples))
    /\ UNCHANGED <<config, program, phase, delay_samples, started_audio, prime_count,
                   sealed, chan, total_steps, snd_len, handed, step_acc, steps_left,
                   running, frames, ev, whist, frame_steps, window, req>>
\* key r
KeyReset ==
    /\ phase = "input"
    /\ LET st == reset_machine([tape |-> tape, i |-> i, pc |-> pc, cycle |-> cycle], N)
       IN  tape' = st.tape /\ i' = st.i /\ pc' = st.pc /\ cycle' = st.cycle
    /\ UNCHANGED <<config, program, phase, delay, driver, step_acc, steps_left,
                   running, frames, ev, whist, frame_steps, window, req>>

\* the four delay keys: set_delay(delay_samples -/+ 64), set_delay(delay_samples -/+ 1)
KeyDelay ==
    /\ phase = "input"
    /\ \E d \in {-COARSE, -1, 1, COARSE} :
         LET asked == delay_samples + d
             res   == set_delay(asked)
         IN  /\ res.delay_samples <= MaxDelay
             /\ delay_samples' = res.delay_samples
             /\ delay_line' = res.delay_line
             /\ whist' = IF res.delay_samples = delay_samples THEN whist ELSE <<>>
             /\ req' = <<asked>>
    /\ UNCHANGED <<config, program, phase, machine, driver, step_acc, steps_left,
                   running, frames, ev, frame_steps, window>>

\* lines 202-209: the steps of this frame
BeginSteps ==
    /\ phase = "input"
    /\ frames < MaxFrames
    /\ LET s == Schedule(step_acc)
       IN  /\ step_acc' = s.acc
           /\ steps_left' = LoopCount(s.steps)
           /\ phase' = IF LoopCount(s.steps) > 0 THEN "steps" ELSE "tick"
    /\ frame_steps' = 0
    /\ req' = <<>>
    /\ UNCHANGED <<config, program, machine, delay, driver, running, frames,
                   ev, whist, window>>

LastOf(q, n) == IF Len(q) <= n THEN q ELSE SubSeq(q, Len(q) - n + 1, Len(q))

\* lines 210-257: one iteration of the step loop
Step ==
    /\ phase = "steps"
    /\ steps_left > 0
    /\ LET tc       == i
           read_sym == tape[tc]
       IN  IF <<pc, read_sym>> \notin DOMAIN program
           THEN \* program[(state.pc, read_sym)] raises KeyError
                /\ phase' = "key_error"
                /\ UNCHANGED <<ev, machine, delay, driver, steps_left, whist, frame_steps>>
           ELSE LET rule      == program[<<pc, read_sym>>]
                    write_sym == rule.write
                    L         == bit_to_i16(read_sym = 1)
                    w_now     == bit_to_i16(write_sym = 1)
                    ds        == DelayStep(w_now)
                    len       == chunk + SAMPLE_BYTES
                    seal      == SealDue(len)
                IN  /\ delay_line' = ds.line
                    /\ UNCHANGED delay_samples
                    /\ tape' = WriteCell(tape, tc, write_sym)
                    /\ i' = MoveHead(tc, rule.move)
                    /\ pc' = rule.next_pc
                    /\ cycle' = cycle + 1
                    /\ ev' = [n |-> 1, read |-> read_sym, write |-> write_sym,
                              L |-> L, R |-> ds.R, w_now |-> w_now,
                              row |-> (cycle \div N) % N, col |-> tc]
                    /\ whist' = LastOf(Append(whist, w_now), delay_samples + 1)
                    /\ frame_steps' = frame_steps + 1
                    /\ steps_left' = steps_left - 1
                    /\ phase' = IF steps_left = 1 THEN "tick" ELSE "steps"
                    /\ total_steps' = total_steps + 1
                    /\ IF seal
                       THEN /\ snd_len' = len
                            /\ chunk' = 0
                            /\ sealed' = sealed + 1
                            /\ \E busy \in DeviceStates :
                                 /\ chan' = Dispatch(started_audio, prime_count, busy)
                                 /\ handed' = handed + Calls(chan')
                            /\ prime_count' = IF started_audio THEN prime_count
                                                              ELSE prime_count + 1
                            /\ started_audio' = (started_audio \/ Primed(prime_count + 1))
                       ELSE /\ chunk' = len
                            /\ UNCHANGED <<sealed, chan, prime_count, started_audio,
                                           snd_len, handed>>
    /\ UNCHANGED <<config, program, step_acc, running, frames, window, req>>

\* lines 260-275 and the loop test: the frame ends
Tick ==
    /\ phase = "tick"
    /\ phase' = IF running THEN "input" ELSE "done"
    /\ frames' = frames + 1
    /\ window' = LastOf(Append(window, frame_steps), fps)
    /\ UNCHANGED <<config, program, machine, delay, driver, step_acc, steps_left,
                   running, ev, whist, frame_steps, req>>

Next == Load \/ Quit \/ KeyReset \/ KeyDelay \/ BeginSteps \/ Step \/ Tick

Spec == Init /\ [][Next]_vars

\* The loader alone, over every short rule file.
InitLoad == Setup({1}, {<<1, 1>>}, LoadSources)
SpecLoad == InitLoad /\ [][Load]_vars

\* The scheduler over a wider range of rates, one machine.
MaxSchedHz  == 7
MaxSchedFps == 3
InitSched == Setup({2}, (1..MaxSchedHz) \X (1..MaxSchedFps), {Oscillator})
SpecSched == InitSched /\ [][Next]_vars

\* Runs long enough to seal packets: one machine at a rate that fills more
\* than one chunk per frame.
DriverHz == 320
InitDriver == Setup({2}, {<<DriverHz, 1>>}, {Oscillator})
SpecDriver == InitDriver /\ [][Next]_vars

\* ================================================================ claims
RECURSIVE SumSeq(_)
SumSeq(q) == IF q = <<>> THEN 0 ELSE Head(q) + SumSeq(Tail(q))

\* a machine step has just run and no input event has been handled since
JustStepped == phase \in {"steps", "tick"} /\ frame_steps >= 1
\* the transition is a machine step
StepTaken == frame_steps' = frame_steps + 1
\* window holds the last fps frames
FullWindow == Len(window) = fps

\* C1 as stated: over any fps consecutive frames the machine executes exactly
\* audio_hz steps, for any positive audio_hz and fps.
C1_RateExact == FullWindow => SumSeq(window) = audio_hz

\* C1 amended: over any fps consecutive frames the machine executes exactly
\* audio_hz steps when audio_hz >= fps, and exactly fps steps (one per frame)
\* when audio_hz < fps.
C1_RateExactAmended ==
    FullWindow => SumSeq(window) = IF audio_hz >= fps THEN audio_hz ELSE fps

\* a window that starts at a non-zero accumulator phase of a fractional rate
C1_Witness ==
    /\ FullWindow /\ frames > fps /\ fps >= 2
    /\ audio_hz > fps /\ rem_steps # 0 /\ step_acc # 0
    /\ SumSeq(window) = audio_hz

\* C2: with delay setting D, the Right sample of the k-th step since D was set
\* is 0 for k <= D and the w_now of step k-D for k > D.
C2_DelayLaw ==
    JustStepped =>
        ev.R = IF Len(whist) <= delay_samples THEN 0
               ELSE whist[Len(whist) - delay_samples]

\* C3: whenever D >= 1 the delay line holds exactly D elements.
C3_DelayLineLength ==
    (phase # "start" /\ delay_samples >= 1) => Len(delay_line.items) = delay_samples

\* C4: with a table load_program accepted, every machine step finds a rule
\* for (pc, symbol under the head).
C4_NoLookupFailure ==
    (phase = "steps" /\ steps_left > 0) => <<pc, tape[i]>> \in DOMAIN program

\* the pcs and keys that the rows of the file declare
DeclaredPcs  == { rows[k].pc : k \in DOMAIN rows }
DeclaredKeys == { <<rows[k].pc, rows[k].read>> : k \in DOMAIN rows }
RowsWellFormed ==
    \A k \in DOMAIN rows :
        StripUpper(rows[k].move) \in {"L", "R", "S"} /\ rows[k].write \in {0, 1, 2}
DeclaredPcLacksRule ==
    \E p \in DeclaredPcs : \E r \in {0, 1} : <<p, r>> \notin DeclaredKeys

\* C5: load_program returns a table only if every declared pc has a rule for
\* 0 and for 1; a declared pc lacking one ends in an error with no table, and
\* the table never holds a rule the file did not give.
C5_Totality ==
    /\ phase = "input" =>
          /\ \A p \in DeclaredPcs : <<p, 0>> \in DOMAIN program /\ <<p, 1>> \in DOMAIN program
          /\ DOMAIN program = DeclaredKeys
    /\ (phase # "start" /\ DeclaredPcLacksRule) =>
          phase = "load_error" /\ program = EmptyProgram

\* a well-formed file refused only because a declared pc lacks a rule
C5_Witness ==
    phase = "load_error" /\ RowsWellFormed /\ DeclaredPcLacksRule /\ Len(rows) >= 2

\* C6: a step changes no cell but the one at the pre-step head, which gets
\* the rule's write symbol; cycle grows by one; symbol_read and the Left
\* sample come from the cell's value before the write.
C6_StepAtomic ==
    [][StepTaken =>
          /\ DOMAIN tape' = DOMAIN tape
          /\ \A x \in DOMAIN tape : x # i => tape'[x] = tape[x]
          /\ tape'[i] = program[<<pc, tape[i]>>].write
          /\ cycle' = cycle + 1
          /\ ev'.read = tape[i]
          /\ ev'.col = i
          /\ ev'.L = (IF tape[i] = 1 THEN HIGH ELSE 0)]_vars

\* a step that changed the cell under the head, on a tape with other cells
C6_Witness ==
    JustStepped /\ N >= 2 /\ ev.read # ev.write /\ tape[ev.col] = ev.write /\ cycle >= 2

\* C7: 0 <= i < N always; move=-1 from head 0 leaves N-1 and move=+1 from
\* head N-1 leaves 0.
C7_Wraparound ==
    /\ [](i \in 0..(N - 1))
    /\ [][StepTaken =>
            LET move == program[<<pc, tape[i]>>].move
            IN  /\ (i = 0 /\ move = -1) => i' = N - 1
                /\ (i = N - 1 /\ move = 1) => i' = 0]_vars

\* the head has just wrapped leftwards from cell 0
C7_Witness == JustStepped /\ N >= 3 /\ ev.col = 0 /\ i = N - 1

ResetState ==
    /\ DOMAIN tape = 0..(N - 1)
    /\ \A x \in 0..(N - 1) : tape[x] = IF x = N \div 4 THEN 1 ELSE 0
    /\ i = 0 /\ pc = 1 /\ cycle = 0

\* C8: from any reachable machine state reset_machine leaves the tape all
\* zero except index N//4 = 1, head 0, pc 1 and cycle 0 (also the reset that
\* run_ftmp_forever does before its loop).
C8_ResetDeterminism ==
    /\ [](phase = "start" => ResetState)
    /\ [][KeyReset => ResetState']_vars

\* a reset of a machine that had run: only a reset brings cycle back to 0
C8_Witness == phase = "input" /\ frames >= 1 /\ cycle = 0 /\ N >= 4 /\ ResetState

\* C9: in Steady-State each sealed packet is played iff the device answers
\* not busy and enqueued otherwise, and started_audio never goes back to false.
C9_UnderrunRecovery ==
    [][/\ started_audio => started_audio'
       /\ (started_audio /\ sealed' = sealed + 1) =>
             /\ chan'.asked
             /\ chan'.op = "play"  <=> ~chan'.busy
             /\ chan'.op = "queue" <=> chan'.busy]_vars

\* a packet played after an underrun, past the priming packets
C9_Witness ==
    started_audio /\ sealed > PRIME_CHUNKS + 1 /\ chan.asked /\ ~chan.busy /\ chan.op = "play"

\* C10: the first sealed packet is played and the second and third are
\* enqueued, all without asking the device; Steady-State holds exactly when
\* PRIME_CHUNKS packets have been sealed; prime_count never exceeds it.
C10_Priming ==
    /\ sealed = 0 => chan.op = "none"
    /\ sealed = 1 => chan.op = "play" /\ ~chan.asked
    /\ sealed \in 2..PRIME_CHUNKS => chan.op = "queue" /\ ~chan.asked
    /\ started_audio <=> sealed >= PRIME_CHUNKS
    /\ prime_count <= PRIME_CHUNKS
    /\ prime_count = Min(sealed, PRIME_CHUNKS)

\* the third packet has just been enqueued and the driver went live
C10_Witness ==
    sealed = PRIME_CHUNKS /\ started_audio /\ chan.op = "queue" /\ ~chan.asked

\* the transition is a set_delay call (one that repeats the previous request
\* of the same input phase changes nothing at all)
SetDelayCalled == req' # <<>> /\ req' # req
\* the delay a request for a samples must leave
Nearest(a) == IF a < 0 THEN 0 ELSE IF a > audio_hz THEN audio_hz ELSE a
Zeros(n) == [x \in 1..n |-> 0]

\* C11: delay_samples stays within [0, audio_hz] whatever the delay keys ask
\* for; an out-of-range request leaves the nearest bound and the program
\* goes on.
C11_DelayClamp ==
    /\ [](delay_samples \in 0..audio_hz)
    /\ [][SetDelayCalled =>
            /\ delay_samples' = Nearest(req'[1])
            /\ phase' = "input"]_vars

\* a request above audio_hz has just been clamped
C11_Witness ==
    /\ phase = "input" /\ req # <<>> /\ audio_hz >= 2
    /\ req[1] > audio_hz /\ delay_samples = audio_hz

\* C12: the events and samples of a run are fixed by the rule table, N, the
\* rates and the control inputs, whatever the device answers: every step's
\* event, sample pair and next machine and delay state are a function of the
\* machine and delay state before it, every frame's step count is a function
\* of the accumulator, and nothing but a step produces an event.
C12_Determinism ==
    [][/\ StepTaken =>
            LET rule == program[<<pc, tape[i]>>]
                w    == IF rule.write = 1 THEN HIGH ELSE 0
                kept == IF Len(delay_line.items) >= delay_line.maxlen
                        THEN Tail(delay_line.items) ELSE delay_line.items
                line == Append(kept, w)
            IN  /\ ev' = [n |-> 1, read |-> tape[i], write |-> rule.write,
                          L |-> IF tape[i] = 1 THEN HIGH ELSE 0,
                          R |-> IF delay_samples <= 0 THEN w ELSE Head(line),
                          w_now |-> w, row |-> (cycle \div N) % N, col |-> i]
                /\ tape' = [tape EXCEPT ![i] = rule.write]
                /\ i' = (i + rule.move) % N
                /\ pc' = rule.next_pc
                /\ cycle' = cycle + 1
                /\ delay_samples' = delay_samples
                /\ delay_line' = IF delay_samples <= 0 THEN delay_line
                                  ELSE [delay_line EXCEPT !.items = Tail(line)]
                /\ step_acc' = step_acc
       /\ ~StepTaken => ev' = ev
       /\ (phase = "input" /\ phase' # "input") =>
            LET a == step_acc + (audio_hz % fps)
                c == IF a >= fps THEN 1 ELSE 0
            IN  /\ step_acc' = a - c * fps
                /\ steps_left' = Max(1, (audio_hz \div fps) + c)
                /\ UNCHANGED <<machine, delay>>]_vars

\* a step that sealed a packet on an idle device and still put out the
\* delayed sample
C12_Witness ==
    /\ JustStepped /\ chunk = 0 /\ chan.asked /\ ~chan.busy
    /\ delay_samples >= 2 /\ ev.R = HIGH /\ ev.w_now = 0

\* C13: every frame executes at least one machine step, also when
\* audio_hz < fps, so the steps executed grow by at least one per frame.
C13_ForwardProgress ==
    /\ phase = "tick" => frame_steps >= 1
    /\ \A k \in DOMAIN window : window[k] >= 1
    /\ total_steps >= frames

\* frames of a rate below the frame rate, each with its one step
C13_Witness ==
    audio_hz < fps /\ frames >= fps /\ phase = "input" /\ total_steps = frames

\* C14: every step appends one 4-byte sample pair; a packet is sealed at
\* every CHUNK_FRAMES-th step since the start and holds exactly CHUNK_FRAMES
\* pairs; after a step the buffer is shorter than CHUNK_BYTES.
C14_PacketSealing ==
    /\ chunk = 4 * (total_steps % CHUNK_FRAMES)
    /\ sealed = total_steps \div CHUNK_FRAMES
    /\ chunk < CHUNK_BYTES
    /\ snd_len = IF sealed = 0 THEN 0 ELSE 4 * CHUNK_FRAMES

\* a second packet sealed after a reset and under a delay
C14_Witness ==
    /\ JustStepped /\ sealed >= 2 /\ chunk = 0
    /\ cycle < total_steps /\ delay_samples >= 1

C16_DelayPersists ==
    [][SetDelayCalled =>
          LET c == Nearest(req'[1])
          IN  IF c = delay_samples
              THEN delay_samples' = delay_samples /\ delay_line' = delay_line
              ELSE /\ delay_samples' = c
                   /\ delay_line'.items = Zeros(Max(1, c))
                   /\ delay_line'.maxlen = Max(1, c)]_vars

\* a call that asked for the current delay and left a used delay line alone
C16_Witness ==
    /\ phase = "input" /\ req # <<>> /\ delay_samples >= 1
    /\ Nearest(req[1]) = delay_samples
    /\ delay_line.items # Zeros(delay_samples)

\* C17: a frame whose input phase saw a quit signal still executes all its
\* scheduled steps, each appending its sample and sealing as usual; the loop
\* ends at the end of that frame and nothing runs afterwards.
C17_Shutdown ==
    [][/\ ~running => ~running'
       /\ (phase = "input" /\ phase' # "input") =>
             /\ phase' = "steps"
             /\ frame_steps' = 0
             /\ steps_left' =
                   Max(1, (audio_hz \div fps)
                          + IF step_acc + (audio_hz % fps) >= fps THEN 1 ELSE 0)
       /\ StepTaken =>
             /\ steps_left' = steps_left - 1
             /\ total_steps' = total_steps + 1
             /\ chunk' = chunk + 4 \/ (chunk' = 0 /\ handed' = handed + 1)
       /\ (phase = "steps" /\ phase' = "tick") => steps_left' = 0
       /\ phase = "tick" => phase' = IF running THEN "input" ELSE "done"
       /\ phase' = "done" => phase = "tick"
       /\ phase # "done"]_vars

\* the loop has ended after a quit frame of several steps
C17_Witness ==
    phase = "done" /\ ~running /\ frames >= 2 /\ frame_steps >= 2 /\ steps_left = 0

\* C18: a reset changes tape, head, pc and cycle only: delay_samples, the
\* delay line, step_acc, the packet buffer, prime_count and started_audio
\* stay as they were.  (In the input phase only a reset changes the machine.)
C18_ResetFrame ==
    [][(phase = "input" /\ machine' # machine) =>
          /\ ResetState'
          /\ UNCHANGED <<delay_samples, delay_line, step_acc, chunk,
                         prime_count, started_audio>>]_vars

\* a reset in Steady-State with a partly filled buffer and a delay set
C18_Witness ==
    /\ phase = "input" /\ frames >= 1 /\ cycle = 0 /\ ResetState
    /\ chunk > 0 /\ started_audio /\ delay_samples >= 1

\* C19: every sealed packet is handed to the device by exactly one call, play
\* or queue, in the step that seals it, and no call is made otherwise.
C19_HandedOnce ==
    /\ [](handed = sealed)
    /\ [][/\ sealed' # sealed =>
              /\ StepTaken
              /\ sealed' = sealed + 1
              /\ handed' = handed + 1
              /\ chan'.op \in {"play", "queue"}
          /\ handed' # handed => sealed' = sealed + 1
          /\ sealed' = sealed => chan' = chan]_vars

\* a packet enqueued behind a busy device in Steady-State
C19_Witness ==
    sealed > PRIME_CHUNKS + 1 /\ handed = sealed /\ chan.asked /\ chan.op = "queue"

\* C20: with a device that is busy only with what play and queue gave it,
\* play is never called while the device is busy; the only play made without
\* asking is the first packet's, when nothing has been sent.
C20_PlayNeverInterrupts ==
    /\ chan.op = "play" => ~chan.dev
    /\ (chan.op = "play" /\ ~chan.asked) => sealed = 1
    /\ chan.asked => chan.busy = chan.dev

\* the first Steady-State packet played on a device that ran dry
C20_Witness ==
    /\ started_audio /\ sealed = PRIME_CHUNKS + 1
    /\ chan.op = "play" /\ chan.asked /\ ~chan.dev

====
